---- MODULE Spec2Model ----
(***************************************************************************)
(* Model of LSSTDESC/ML-Cadence:                                           *)
(*   - features.py: get_cache_prefix and extract_features (the feature     *)
(*     cache), sequential and with two concurrent callers;                 *)
(*   - ml_pipeline/data.py: CadenceData._read_data_from_header_file (the   *)
(*     slicing of the flat photometry array into per-object tables).       *)
(*                                                                         *)
(* A keyword-argument dict is a sequence of <<key, value>> pairs with      *)
(* distinct keys, in insertion order (Python 3.7 dicts keep it); a value   *)
(* is written as its Python repr ("4", "True").  A falsy cache_dir or      *)
(* file_prefix (None, '') is the empty string.                             *)
(***************************************************************************)
EXTENDS Integers, Sequences, FiniteSets, TLC

VARIABLES
    \* ---- the feature cache (features.py) ----
    seed,       \* the str-hash seed of the running interpreter
    files,      \* <cache_dir>/features: file name -> content
    dirs,       \* directories created so far
    last,       \* the most recent extract_features call and its outcome
    prev,       \* the call before it
    ncalls,     \* extract_features calls made by the running process
    nextract,   \* feature_class.extract_features invocations by the running process
    uniform,    \* every call of the running process had the same arguments
    fresh,      \* the cache directory was empty when the running process started
    firstRet,   \* the table returned by the first call of the running process
    tainted,    \* some non-WaveletFeatures call wrote under a caller-supplied file_prefix
    total,      \* extract_features calls made in all runs
    \* ---- CadenceData (ml_pipeline/data.py) ----
    reading,    \* a header/photometry file pair has been opened
    phot,       \* phot_data of the file pair being read
    rec,        \* the header record processed last
    data,       \* self.data: snid -> table
    err,        \* the exception raised while slicing, "none" if none
    \* ---- two concurrent extract_features callers ----
    cmethod,    \* type(feature_class).__name__ of both callers
    cpc,        \* caller -> position in extract_features
    cidx,       \* caller -> index of the artifact it reads or writes next
    cstore      \* the artifacts of the shared fingerprint that exist

vars == <<seed, files, dirs, last, prev, ncalls, nextract, uniform, fresh,
          firstRet, tainted, total, reading, phot, rec, data, err,
          cmethod, cpc, cidx, cstore>>

cacheVars == <<seed, files, dirs, last, prev, ncalls, nextract, uniform, fresh,
               firstRet, tainted, total>>
sliceVars == <<reading, phot, rec, data, err>>
concVars == <<cmethod, cpc, cidx, cstore>>

----------------------------------------------------------------------------
(* Bounds and input sets *)

MaxCalls == 2
HashMod == 1009
MaxN == 4

Seeds == {0, 1}
Methods == {"WaveletFeatures", "ParametricFeatures", "TemplateFeatures"}
CacheDirs == {"", "cache"}
FilePrefixes == {"", "run1"}
KwargsInputs ==
    { <<>>,
      << <<"a", "1">>, <<"b", "2">> >>,
      << <<"b", "2">>, <<"a", "1">> >>,
      << <<"a", "1">>, <<"b", "2">>, <<"nprocesses", "4">> >>,
      << <<"save_output", "True">> >> }
survey_name == "sv"

----------------------------------------------------------------------------
(* dict helpers *)

Keys(kw) == {kw[i][1] : i \in DOMAIN kw}

HasKey(kw, k) == k \in Keys(kw)

Get(kw, k) == kw[CHOOSE i \in DOMAIN kw : kw[i][1] = k][2]

Items(kw) == {kw[i] : i \in DOMAIN kw}

SetDefaultForce(kw, k, v) ==
    IF HasKey(kw, k)
    THEN [i \in DOMAIN kw |-> IF kw[i][1] = k THEN <<k, v>> ELSE kw[i]]
    ELSE Append(kw, <<k, v>>)

\* dict.setdefault(k, v): sets k only when it is absent
SetDefault(kw, k, v) == IF HasKey(kw, k) THEN kw ELSE Append(kw, <<k, v>>)

RECURSIVE Update(_, _)
\* dict.update(other): overwrite in place, append what is new
Update(meta, kw) ==
    IF kw = <<>> THEN meta
    ELSE Update(SetDefaultForce(meta, kw[1][1], kw[1][2]), Tail(kw))

----------------------------------------------------------------------------
(* get_cache_prefix *)

ignore_kwargs ==
    {"save_chains", "chain_directory", "nprocesses", "save_output",
     "convert_to_binary", "output_root"}

kept_kwargs(kw) == SelectSeq(kw, LAMBDA p : p[1] \notin ignore_kwargs)

RECURSIVE Str(_)
\* str(dict): the keys and values in insertion order
Str(kw) == IF kw = <<>> THEN <<>> ELSE <<kw[1][1], kw[1][2]>> \o Str(Tail(kw))

Tokens == <<"a", "b", "nprocesses", "save_output", "1", "2", "4", "True", "False">>

Ord(t) == CHOOSE i \in DOMAIN Tokens : Tokens[i] = t

RECURSIVE HashFrom(_, _)
HashFrom(h, s) ==
    IF s = <<>> THEN h
    ELSE HashFrom((h * 31 + Ord(s[1])) % HashMod, Tail(s))

\* hash(str): keyed by the interpreter's per-process seed
Hash(s, sd) == HashFrom((sd * 131 + 7) % HashMod, s)

get_cache_prefix(survey, method, kw, sd) ==
    survey \o "_" \o method \o "_" \o ToString(Hash(Str(kept_kwargs(kw)), sd))

----------------------------------------------------------------------------
(* extract_features *)

\* the external routine: values depend on the dataset, the method and the
\* arguments that are not control-only; the table's meta starts empty
Routine(method, kw) ==
    [values |-> <<survey_name, method, Items(kept_kwargs(kw))>>, meta |-> <<>>]

\* the PCA attributes WaveletFeatures.extract_features leaves on the instance
PCA(method, kw) ==
    [a \in {"eigenvals", "eigenvectors", "mean"} |->
        <<a, survey_name, Items(kept_kwargs(kw))>>]

NoTable == [values |-> <<>>, meta |-> <<>>]
NoPCA == <<>>

\* Table.write / Table.read, format ascii.ecsv: a header with the meta, then the rows
WriteEcsv(t) == [header |-> t.meta, rows |-> t.values]
ReadEcsv(c) == [values |-> c.rows, meta |-> c.header]

NoCall ==
    [method |-> "", kwargs |-> <<>>, cache_dir |-> "", file_prefix |-> "",
     path |-> "NONE", status |-> "none", invoked |-> FALSE, passed |-> <<>>,
     ret |-> NoTable, prefix |-> "", pca |-> NoPCA, reads |-> {}, live |-> FALSE]

DefaultsForced(method, kw) ==
    IF method # "ParametricFeatures"
    THEN SetDefaultForce(kw, "save_output", "False") ELSE kw

\* lines 113-115
Defaults(method, kw) ==
    IF method # "ParametricFeatures"
    THEN SetDefault(kw, "save_output", "False") ELSE kw

NeverNoCache(cache_dir) == FALSE

\* line 117: not cache_dir
NoCache(cache_dir) == cache_dir = ""

\* lines 124-125
Prefix(method, kw, file_prefix, sd) ==
    IF file_prefix # "" THEN file_prefix
    ELSE get_cache_prefix(survey_name, method, kw, sd)

\* line 61, for features_dir and class_dir
create_cache_dirs(parent) == {parent \o "/features", parent \o "/classifications"}

features_path(p) == p \o "_features.ecsv"
eigenval_path(p) == p \o "_eigenvals.ecsv"
eigenvec_path(p) == p \o "_eigenvectors.ecsv"
mean_path(p) == p \o "_mean.ecsv"

AuxPaths(p) == {eigenval_path(p), eigenvec_path(p), mean_path(p)}

NeverExists(fs, path) == FALSE

\* line 134: features_path.exists()
Exists(fs, path) == path \in DOMAIN fs

AuxWritesNoMean(method, kw, p) ==
    IF method = "WaveletFeatures"
    THEN (eigenval_path(p) :> PCA(method, kw)["eigenvals"])
         @@ (eigenvec_path(p) :> PCA(method, kw)["eigenvectors"])
    ELSE <<>>

\* lines 150-153
AuxWrites(method, kw, p) ==
    IF method = "WaveletFeatures"
    THEN (eigenval_path(p) :> PCA(method, kw)["eigenvals"])
         @@ (eigenvec_path(p) :> PCA(method, kw)["eigenvectors"])
         @@ (mean_path(p) :> PCA(method, kw)["mean"])
    ELSE <<>>

\* the outcome of one call: the call record, the files and the directories after it
Outcome(method, kw, cache_dir, file_prefix) ==
    LET kwargs == Defaults(method, kw)
        base == [NoCall EXCEPT !.method = method, !.kwargs = kw,
                               !.cache_dir = cache_dir,
                               !.file_prefix = file_prefix, !.live = TRUE]
    IN  IF NoCache(cache_dir)
        THEN [call |-> [base EXCEPT !.path = "NOCACHE", !.status = "ok",
                                    !.invoked = TRUE, !.passed = kwargs,
                                    !.ret = Routine(method, kwargs),
                                    !.pca = IF method = "WaveletFeatures"
                                            THEN PCA(method, kwargs) ELSE NoPCA],
              files |-> files, dirs |-> dirs]
        ELSE
        LET p == Prefix(method, kwargs, file_prefix, seed)
            d == dirs \cup create_cache_dirs(cache_dir)
        IN  IF Exists(files, features_path(p))
            THEN \* lines 135-141
                LET aux == IF method = "WaveletFeatures" THEN AuxPaths(p) ELSE {}
                    ok == aux \subseteq DOMAIN files
                    \* np.loadtxt in the order of lines 139-141, up to the first failure
                    loaded ==
                        IF method # "WaveletFeatures" \/ ~Exists(files, eigenval_path(p))
                        THEN {}
                        ELSE IF ~Exists(files, eigenvec_path(p))
                        THEN {eigenval_path(p)}
                        ELSE IF ~Exists(files, mean_path(p))
                        THEN {eigenval_path(p), eigenvec_path(p)}
                        ELSE AuxPaths(p)
                IN  [call |-> [base EXCEPT
                        !.path = "HIT", !.prefix = p,
                        !.status = IF ok THEN "ok" ELSE "OSError",
                        !.ret = IF ok THEN ReadEcsv(files[features_path(p)])
                                ELSE NoTable,
                        !.pca = IF ok /\ method = "WaveletFeatures"
                                THEN [a \in {"eigenvals", "eigenvectors", "mean"} |->
                                        files[p \o "_" \o a \o ".ecsv"]]
                                ELSE NoPCA,
                        !.reads = {features_path(p)} \cup loaded],
                     files |-> files, dirs |-> d]
            ELSE \* lines 145-153
                LET f0 == Routine(method, kwargs)
                    features == [f0 EXCEPT !.meta = Update(f0.meta, kwargs)]
                IN  [call |-> [base EXCEPT
                        !.path = "MISS", !.prefix = p, !.status = "ok",
                        !.invoked = TRUE, !.passed = kwargs, !.ret = features,
                        !.pca = IF method = "WaveletFeatures"
                                THEN PCA(method, kwargs) ELSE NoPCA],
                     files |-> AuxWrites(method, kwargs, p)
                               @@ (features_path(p) :> WriteEcsv(features))
                               @@ files,
                     dirs |-> d]

SameArgs(c, method, kw, cache_dir, file_prefix) ==
    /\ c.method = method
    /\ c.kwargs = kw
    /\ c.cache_dir = cache_dir
    /\ c.file_prefix = file_prefix

\* one call of extract_features(feature_class, data, cache_dir, file_prefix, **kw)
extract_features(method, kw, cache_dir, file_prefix) ==
    /\ total < MaxCalls
    /\ \E o \in {Outcome(method, kw, cache_dir, file_prefix)} :
           /\ last' = o.call
           /\ files' = o.files
           /\ dirs' = o.dirs
           /\ nextract' = nextract + (IF o.call.invoked THEN 1 ELSE 0)
           /\ firstRet' = IF ncalls = 0 THEN o.call.ret ELSE firstRet
           /\ tainted' = (tainted \/ (/\ o.call.path = "MISS"
                                      /\ file_prefix # ""
                                      /\ method # "WaveletFeatures"))
    /\ prev' = last
    /\ ncalls' = ncalls + 1
    /\ total' = total + 1
    /\ uniform' = (ncalls = 0 \/ (uniform /\ SameArgs(last, method, kw, cache_dir, file_prefix)))
    /\ UNCHANGED <<seed, fresh>>
    /\ UNCHANGED sliceVars
    /\ UNCHANGED concVars

\* the interpreter exits and a new one starts: a new hash seed, the files stay
Restart ==
    /\ ncalls > 0
    /\ total < MaxCalls
    /\ \E s \in Seeds : seed' = s
    /\ last' = [last EXCEPT !.live = FALSE]
    /\ prev' = [prev EXCEPT !.live = FALSE]
    /\ ncalls' = 0
    /\ nextract' = 0
    /\ uniform' = TRUE
    /\ fresh' = (DOMAIN files = {})
    /\ firstRet' = NoTable
    /\ UNCHANGED <<files, dirs, tainted, total>>
    /\ UNCHANGED sliceVars
    /\ UNCHANGED concVars

NoRecord == [SNID |-> 0, PTROBS_MIN |-> 0, PTROBS_MAX |-> 0]

SliceIdle ==
    /\ reading = FALSE
    /\ phot = <<>>
    /\ rec = NoRecord
    /\ data = <<>>
    /\ err = "none"

ConcIdle ==
    /\ cmethod = ""
    /\ cpc = <<>>
    /\ cidx = <<>>
    /\ cstore = {}

CacheIdle ==
    /\ seed = 0
    /\ files = <<>>
    /\ dirs = {}
    /\ last = NoCall
    /\ prev = NoCall
    /\ ncalls = 0
    /\ nextract = 0
    /\ uniform = TRUE
    /\ fresh = TRUE
    /\ firstRet = NoTable
    /\ tainted = FALSE
    /\ total = 0

Init ==
    /\ seed \in Seeds
    /\ files = <<>>
    /\ dirs = {}
    /\ last = NoCall
    /\ prev = NoCall
    /\ ncalls = 0
    /\ nextract = 0
    /\ uniform = TRUE
    /\ fresh = TRUE
    /\ firstRet = NoTable
    /\ tainted = FALSE
    /\ total = 0
    /\ SliceIdle
    /\ ConcIdle

Next ==
    \/ \E method \in Methods, kw \in KwargsInputs,
          cache_dir \in CacheDirs, file_prefix \in FilePrefixes :
            extract_features(method, kw, cache_dir, file_prefix)
    \/ Restart

Spec == Init /\ [][Next]_vars

----------------------------------------------------------------------------
(* CadenceData._read_data_from_header_file *)

SnIds == {1, 2}
Ptrs == 0..(MaxN + 1)
HeaderRecords == [SNID : SnIds, PTROBS_MIN : Ptrs, PTROBS_MAX : Ptrs]

\* the photometry array of a file with n rows; a row is named by its position
PhotData(n) == [i \in 1..n |-> i]

\* a[lo:hi] on a numpy array or a list: a negative index counts from the end,
\* both ends are clipped to the array, and nothing is ever raised
SliceBound(i, n) ==
    IF i < 0 THEN (IF i + n < 0 THEN 0 ELSE i + n)
    ELSE (IF i > n THEN n ELSE i)

PySlice(a, lo, hi) ==
    LET s == SliceBound(lo, Len(a))
        e == SliceBound(hi, Len(a))
    IN  IF s < e THEN SubSeq(a, s + 1, e) ELSE <<>>

\* slicing raises nothing, whatever the indices
SliceError(a, lo, hi) == "none"

data_start_idx_off_by_one(record) == record.PTROBS_MIN

\* line 124
data_start_idx(record) == record.PTROBS_MIN - 1

\* line 125
data_end_idx(record) == record.PTROBS_MAX

\* line 120: read_photometry_file(header_path) returns a photometry array of n rows
read_photometry_file(n) ==
    /\ reading' = TRUE
    /\ phot' = PhotData(n)
    /\ rec' = NoRecord
    /\ UNCHANGED <<data, err>>
    /\ UNCHANGED cacheVars
    /\ UNCHANGED concVars

\* lines 122-136: the loop body, for the next record of meta_data
ReadRecord(record) ==
    /\ reading
    /\ LET target_data ==
            [rows |-> PySlice(phot, data_start_idx(record), data_end_idx(record)),
             zpsys |-> "AB", snid |-> record.SNID]
       IN  data' = (record.SNID :> target_data) @@ data
    /\ err' = SliceError(phot, data_start_idx(record), data_end_idx(record))
    /\ rec' = record
    /\ UNCHANGED <<reading, phot>>
    /\ UNCHANGED cacheVars
    /\ UNCHANGED concVars

InitSlice == CacheIdle /\ ConcIdle /\ SliceIdle

NextSlice ==
    \/ \E n \in 0..MaxN : read_photometry_file(n)
    \/ \E record \in HeaderRecords : ReadRecord(record)

SpecSlice == InitSlice /\ [][NextSlice]_vars

----------------------------------------------------------------------------
(* two callers of extract_features with one cache_dir and one fingerprint;   *)
(* every file write and every file read is one step                          *)

Callers == {1, 2}

Artifacts(method) ==
    IF method = "WaveletFeatures"
    THEN <<"features", "eigenvals", "eigenvectors", "mean">>
    ELSE <<"features">>

\* line 134
Probe(c) ==
    /\ cpc[c] = "probe"
    /\ cpc' = [cpc EXCEPT ![c] = IF "features" \in cstore THEN "read" ELSE "extract"]
    /\ UNCHANGED <<cmethod, cidx, cstore>>
    /\ UNCHANGED cacheVars
    /\ UNCHANGED sliceVars

\* line 146
Extract(c) ==
    /\ cpc[c] = "extract"
    /\ cpc' = [cpc EXCEPT ![c] = "write"]
    /\ UNCHANGED <<cmethod, cidx, cstore>>
    /\ UNCHANGED cacheVars
    /\ UNCHANGED sliceVars

\* line 149, then lines 151, 152, 153 for WaveletFeatures
Write(c) ==
    /\ cpc[c] = "write"
    /\ cstore' = cstore \cup {Artifacts(cmethod)[cidx[c]]}
    /\ IF cidx[c] < Len(Artifacts(cmethod))
       THEN cidx' = [cidx EXCEPT ![c] = @ + 1] /\ UNCHANGED cpc
       ELSE cpc' = [cpc EXCEPT ![c] = "done"] /\ UNCHANGED cidx
    /\ UNCHANGED cmethod
    /\ UNCHANGED cacheVars
    /\ UNCHANGED sliceVars

\* line 135, then lines 139, 140, 141 for WaveletFeatures; a file that is not
\* there makes the read raise
Read(c) ==
    /\ cpc[c] = "read"
    /\ IF Artifacts(cmethod)[cidx[c]] \notin cstore
       THEN cpc' = [cpc EXCEPT ![c] = "failed"] /\ UNCHANGED cidx
       ELSE IF cidx[c] < Len(Artifacts(cmethod))
            THEN cidx' = [cidx EXCEPT ![c] = @ + 1] /\ UNCHANGED cpc
            ELSE cpc' = [cpc EXCEPT ![c] = "done"] /\ UNCHANGED cidx
    /\ UNCHANGED <<cmethod, cstore>>
    /\ UNCHANGED cacheVars
    /\ UNCHANGED sliceVars

InitConc ==
    /\ CacheIdle
    /\ SliceIdle
    /\ cmethod \in Methods
    /\ cpc = [c \in Callers |-> "probe"]
    /\ cidx = [c \in Callers |-> 1]
    /\ cstore = {}

NextConc ==
    \E c \in Callers : Probe(c) \/ Extract(c) \/ Write(c) \/ Read(c)

SpecConc == InitConc /\ [][NextConc]_vars

----------------------------------------------------------------------------
(* Properties of the feature cache *)

\* the call went through the cache and derived its prefix with get_cache_prefix
Derived(c) == c.path \in {"HIT", "MISS"} /\ c.file_prefix = ""

\* C1: in one process that started on an empty cache directory and made only
\* calls with one and the same cache_dir, extractor class and keyword
\* arguments (no file_prefix), the extraction routine has run exactly once,
\* {fingerprint}_features exists, and every call after the first is a HIT
\* returning a table equal, values and embedded arguments, to the first one.
C1_CacheRoundTrip ==
    (fresh /\ uniform /\ ncalls >= 1 /\ last.cache_dir # "" /\ last.file_prefix = "")
    => /\ nextract = 1
       /\ Exists(files, features_path(
              get_cache_prefix(survey_name, last.method,
                               Defaults(last.method, last.kwargs), seed)))
       /\ ncalls >= 2 => /\ last.path = "HIT"
                         /\ last.status = "ok"
                         /\ ~last.invoked
                         /\ last.ret = firstRet
                         /\ last.ret.meta = Defaults(last.method, last.kwargs)
                         /\ last.ret.values = Routine(last.method, last.kwargs).values

C1_Witness ==
    /\ fresh /\ uniform /\ ncalls >= 2
    /\ last.cache_dir # "" /\ last.file_prefix = ""
    /\ last.method = "WaveletFeatures"
    /\ last.kwargs # <<>>
    /\ last.path = "HIT"

\* C2: two calls of get_cache_prefix in one process, for the same method and
\* for keyword arguments holding the same pairs once the control-only keys
\* are removed, return the same prefix whatever the insertion order.
C2_OrderIndependent ==
    (/\ Derived(prev) /\ Derived(last) /\ prev.live
     /\ prev.method = last.method
     /\ Items(kept_kwargs(prev.kwargs)) = Items(kept_kwargs(last.kwargs)))
    => prev.prefix = last.prefix

\* C3: the same method and keyword arguments give the same prefix in every
\* process run, so that a call identical to an earlier cached call, of this
\* run or of an earlier one, is a HIT and does not invoke the routine.
C3_SameAcrossRuns ==
    (/\ Derived(prev) /\ Derived(last)
     /\ prev.method = last.method
     /\ prev.kwargs = last.kwargs)
    => /\ prev.prefix = last.prefix
       /\ last.path = "HIT"
       /\ ~last.invoked

\* C4: two cached calls with the same extractor class whose keyword arguments
\* differ only in control-only keys derive the same prefix, and the second is
\* a HIT on the entry of the first.
C4_ControlOnlyIgnored ==
    (/\ Derived(prev) /\ Derived(last)
     /\ prev.method = last.method
     /\ prev.kwargs # last.kwargs
     /\ kept_kwargs(prev.kwargs) = kept_kwargs(last.kwargs))
    => /\ prev.prefix = last.prefix
       /\ last.path = "HIT"
       /\ ~last.invoked

\* C5: a call with no cache_dir invokes the routine exactly once, returns its
\* result, and leaves the storage as it was: no directory created, no file
\* written, no file read.
C5_NoCacheMode ==
    [][(total' = total + 1 /\ last'.cache_dir = "")
       => /\ files' = files
          /\ dirs' = dirs
          /\ nextract' = nextract + 1
          /\ last'.invoked
          /\ last'.reads = {}
          /\ last'.status = "ok"
          /\ last'.ret = Routine(last'.method, Defaults(last'.method, last'.kwargs))]_vars

C5_Witness ==
    /\ last.cache_dir = "" /\ last.path = "NOCACHE"
    /\ prev.path = "MISS" /\ prev.live
    /\ prev.method = last.method /\ prev.kwargs = last.kwargs
    /\ Exists(files, features_path(prev.prefix))
    /\ nextract = 2

\* C8 as stated: a routine invoked for an extractor other than
\* ParametricFeatures always receives save_output = False; ParametricFeatures
\* receives the caller's arguments unchanged.
C8_SuppressionForced ==
    last.invoked
    => IF last.method # "ParametricFeatures"
       THEN HasKey(last.passed, "save_output")
            /\ Get(last.passed, "save_output") = "False"
       ELSE last.passed = last.kwargs

\* C8 amended: save_output = False is a default.  The routine receives the
\* caller's arguments, with save_output = False added only when the extractor
\* is not ParametricFeatures and the caller gave no save_output.
C8_SuppressionByDefault ==
    last.invoked
    => IF last.method # "ParametricFeatures" /\ ~HasKey(last.kwargs, "save_output")
       THEN last.passed = Append(last.kwargs, <<"save_output", "False">>)
       ELSE last.passed = last.kwargs

C8_Witness ==
    /\ last.invoked
    /\ last.method = "TemplateFeatures"
    /\ HasKey(last.kwargs, "save_output")
    /\ Get(last.passed, "save_output") = "True"

\* every prefix a WaveletFeatures call can resolve to
WaveletPrefixes ==
    {Prefix("WaveletFeatures", Defaults("WaveletFeatures", kw), fp, sd) :
        kw \in KwargsInputs, fp \in FilePrefixes, sd \in Seeds}

AuxSynchronized ==
    /\ \A p \in WaveletPrefixes :
          Exists(files, features_path(p)) => AuxPaths(p) \subseteq DOMAIN files
    /\ (last.method = "WaveletFeatures" /\ last.path = "HIT")
       => /\ last.status = "ok"
          /\ last.pca # NoPCA
          /\ AuxPaths(last.prefix) \subseteq last.reads

----------------------------------------------------------------------------
(* Properties of the record slicer *)

InRange(record, n) ==
    /\ 1 <= record.PTROBS_MIN
    /\ record.PTROBS_MIN <= record.PTROBS_MAX
    /\ record.PTROBS_MAX <= n

\* C6: for a record with 1 <= start <= end <= N the stored table has
\* end - start + 1 rows, and its i-th row (from 0) is the raw array's element
\* at 0-based index start - 1 + i.
C6_SliceCorrect ==
    (rec # NoRecord /\ InRange(rec, Len(phot)))
    => /\ rec.SNID \in DOMAIN data
       /\ Len(data[rec.SNID].rows) = rec.PTROBS_MAX - rec.PTROBS_MIN + 1
       /\ \A i \in 0..(rec.PTROBS_MAX - rec.PTROBS_MIN) :
             data[rec.SNID].rows[i + 1] = phot[(rec.PTROBS_MIN - 1 + i) + 1]

C6_Witness ==
    /\ Len(phot) = 4
    /\ rec = [SNID |-> 2, PTROBS_MIN |-> 3, PTROBS_MAX |-> 4]
    /\ DOMAIN data = {1, 2}
    /\ data[1].rows = <<1, 2>>
    /\ data[2].rows = <<3, 4>>

\* C7: a record whose range lies outside the photometry array (start < 1,
\* end > N or start > end + 1) makes the slicing raise IndexError, and no
\* table is stored for it.
C7_OutOfRangeFatal ==
    (/\ rec # NoRecord
     /\ \/ rec.PTROBS_MIN < 1
        \/ rec.PTROBS_MAX > Len(phot)
        \/ rec.PTROBS_MIN > rec.PTROBS_MAX + 1)
    => /\ err = "IndexError"
       /\ rec.SNID \notin DOMAIN data

----------------------------------------------------------------------------
(* Properties of two concurrent callers *)

\* C10: no caller on the HIT path reads an artifact that is not written yet,
\* and when both callers have finished every artifact of the fingerprint is
\* in the storage.
C10_SafeWithoutLocking ==
    /\ \A c \in Callers : cpc[c] # "failed"
    /\ (\A c \in Callers : cpc[c] = "done")
       => \A i \in DOMAIN Artifacts(cmethod) : Artifacts(cmethod)[i] \in cstore

====
